---- MODULE Spec2Model ----
(***************************************************************************)
(* Omi-to-WebDAV sync service (src/sync.py): the reconciliation cycle,     *)
(* the filename allocator, the document renderer with metadata merge, the  *)
(* paginated fetch, the deletion sweep and the cooperative shutdown flag.  *)
(*                                                                         *)
(* Strings the code inspects character by character (titles, filenames,    *)
(* segment texts) are sequences of one-character strings; a multi-letter   *)
(* element such as ".md" stands for that literal piece of text.            *)
(***************************************************************************)
EXTENDS Integers, Sequences, FiniteSets, TLC

(***************************************************************************)
(* Bounds of the model.                                                    *)
(***************************************************************************)
\* cycles of the main loop that are explored
MaxCycles == 2
\* changes the source undergoes between cycles
MaxEdits == 1
\* store calls that raise
MaxFailures == 1
\* out-of-band edits of destination files by the user
MaxUserEdits == 1
\* 429 answers of the source to one fetch
MaxRateLimits == 1
\* cycles explored when the service is left to settle after a failure
MaxRetryCycles == 3
\* transcript segments of a record handed to the renderer on its own
MaxSegments == 3
\* size of the digest space (xxh64 has 2^64 values; collisions exist there too)
HashSpace == 7

(***************************************************************************)
(* Program constants.                                                      *)
(***************************************************************************)
\* OMI_PAGE_SIZE is 25 in the source; scaled so that a listing of three
\* records takes more than one page.
OMI_PAGE_SIZE == 2
\* max_len of sanitize_filename
SanitizeMaxLen == 200
OUTPUT_DIR == <<"/conversations">>

(***************************************************************************)
(* Text helpers (Python str methods).                                      *)
(***************************************************************************)
Min(a, b) == IF a < b THEN a ELSE b

Whitespace == {" "}

RECURSIVE LStrip(_)
LStrip(s) ==
    IF s # <<>> /\ Head(s) \in Whitespace THEN LStrip(Tail(s)) ELSE s

RECURSIVE RStripSet(_, _)
RStripSet(s, cs) ==
    IF s # <<>> /\ s[Len(s)] \in cs THEN RStripSet(SubSeq(s, 1, Len(s) - 1), cs) ELSE s

\* str.strip()
Strip(s) == RStripSet(LStrip(s), Whitespace)

\* one pass of str.replace("  ", " "): left to right, non-overlapping
RECURSIVE ReplaceDoubleSpace(_)
ReplaceDoubleSpace(s) ==
    IF Len(s) < 2 THEN s
    ELSE IF s[1] = " " /\ s[2] = " "
         THEN <<" ">> \o ReplaceDoubleSpace(SubSeq(s, 3, Len(s)))
         ELSE <<s[1]>> \o ReplaceDoubleSpace(Tail(s))

HasDoubleSpace(s) == \E i \in 1..(Len(s) - 1) : s[i] = " " /\ s[i + 1] = " "

\* while "  " in sanitized: sanitized = sanitized.replace("  ", " ")
RECURSIVE CollapseSpaces(_)
CollapseSpaces(s) ==
    IF HasDoubleSpace(s) THEN CollapseSpaces(ReplaceDoubleSpace(s)) ELSE s

\* characters pathvalidate replaces on the universal platform
InvalidFileChars == {"/", "\\", ":", "*", "?", "\"", "<", ">", "|"}

\* pathvalidate.sanitize_filename(value, max_len=200, replacement_text="-")
SanitizeFilename(s) ==
    LET replaced == [i \in 1..Len(s) |-> IF s[i] \in InvalidFileChars THEN "-" ELSE s[i]]
        cut == SubSeq(replaced, 1, Min(Len(replaced), SanitizeMaxLen))
    IN  RStripSet(cut, {" ", "."})

Untitled == <<"Untitled">>

\* sanitize_title(title)
sanitize_title(title) ==
    IF title = <<>> \/ Strip(title) = <<>> THEN Untitled
    ELSE LET normalized == Strip(title)
             sanitized == Strip(CollapseSpaces(SanitizeFilename(normalized)))
         IN  IF sanitized # <<>> THEN sanitized ELSE Untitled

(***************************************************************************)
(* Dates.  created_at is an ISO timestamp; only its calendar date reaches  *)
(* the filename.  An unparseable created_at is the value BadDate.          *)
(***************************************************************************)
BadDate == [ok |-> FALSE, y |-> 0, m |-> 0, d |-> 0]

Digit(n) == <<"0", "1", "2", "3", "4", "5", "6", "7", "8", "9">>[n + 1]

Pad2(n) == <<Digit((n \div 10) % 10), Digit(n % 10)>>

Pad4(n) == <<Digit((n \div 1000) % 10), Digit((n \div 100) % 10)>> \o Pad2(n % 100)

\* day before month: strftime("%d%m%Y")
StrfDMY(dt) == Pad2(dt.d) \o Pad2(dt.m) \o Pad4(dt.y)

\* dt.strftime("%m%d%Y")
StrfMDY(dt) == Pad2(dt.m) \o Pad2(dt.d) \o Pad4(dt.y)

\* datetime.now(timezone.utc) at clock value t
NowDate(t) == [ok |-> TRUE, y |-> 2026, m |-> 1, d |-> 1 + t]

\* the try/except of generate_filename
DateSuffix(created_at, t) ==
    IF created_at.ok THEN StrfMDY(created_at) ELSE StrfMDY(NowDate(t))

(***************************************************************************)
(* Records of the source.                                                  *)
(***************************************************************************)
Ids == {"r1", "r2", "r3"}

\* the listing order of the source
IdOrder == <<"r1", "r2", "r3">>

\* "h" and "a" differ by 7 in ASCII; " a" strips to "a"; the empty title is the
\* one the stored-title test of line 297 treats as "no title stored"
Titles == {<<"a">>, <<"h">>, <<" ", "a">>, <<>>}

D1 == [ok |-> TRUE, y |-> 2024, m |-> 3, d |-> 9]
D2 == [ok |-> TRUE, y |-> 2025, m |-> 12, d |-> 31]
Dates == {D1, D2}

\* the two contents a record can have: category, overview, transcript_segments
Bodies == {1, 2}

ContentOf(b) ==
    IF b = 1
    THEN [category |-> <<"w">>, overview |-> <<" ", "o">>,
          transcript_segments |->
              << [speaker_id |-> 0, text |-> <<"h", "i", " ">>],
                 [speaker_id |-> 1, text |-> <<" ">>],
                 [speaker_id |-> 0, text |-> <<"o">>] >>]
    ELSE [category |-> <<>>, overview |-> <<>>, transcript_segments |-> <<>>]

\* the conversation dict the API returns for a source record
Conversation(id, r) ==
    [id |-> id,
     created_at |-> r.created_at,
     structured |-> [title |-> r.title,
                     category |-> ContentOf(r.body).category,
                     overview |-> ContentOf(r.body).overview],
     transcript_segments |-> ContentOf(r.body).transcript_segments]

(***************************************************************************)
(* compute_content_hash: canonical JSON of {structured, transcript_segments}*)
(* with sorted keys, then a digest.  The digest is a checksum of the       *)
(* serialized characters in a space of HashSpace values.                   *)
(***************************************************************************)
CharCode(c) ==
    CASE c = " " -> 32
      [] c = "0" -> 48
      [] c = "1" -> 49
      [] c = "a" -> 97
      [] c = "h" -> 104
      [] c = "i" -> 105
      [] c = "o" -> 111
      [] c = "w" -> 119
      [] OTHER -> 1

RECURSIVE SerializeSegments(_)
SerializeSegments(segs) ==
    IF segs = <<>> THEN <<>>
    ELSE <<"{", "speaker_id", Digit(Head(segs).speaker_id), "text">>
         \o Head(segs).text \o <<"}">> \o SerializeSegments(Tail(segs))

\* json.dumps(content, sort_keys=True)
Serialize(conversation) ==
    <<"{", "structured", "{", "category">> \o conversation.structured.category
    \o <<"overview">> \o conversation.structured.overview
    \o <<"title">> \o conversation.structured.title
    \o <<"}", "transcript_segments", "[">>
    \o SerializeSegments(conversation.transcript_segments) \o <<"]", "}">>

RECURSIVE Digest(_, _)
Digest(s, h) ==
    IF s = <<>> THEN h ELSE Digest(Tail(s), (h * 31 + CharCode(Head(s))) % HashSpace)

compute_content_hash(conversation) == Digest(Serialize(conversation), 0)

(***************************************************************************)
(* generate_filename                                                       *)
(***************************************************************************)
\* {conv["filename"] for conv in state["conversations"].values()}
ExistingFiles(convs) == {convs[k].filename : k \in DOMAIN convs}

generate_filename(title, created_at, convs, t) ==
    LET base_name == sanitize_title(title)
        filename == base_name \o <<".md">>
    IN  IF filename \notin ExistingFiles(convs) THEN filename
        ELSE base_name \o <<"_">> \o DateSuffix(created_at, t) \o <<".md">>

\* f"{OUTPUT_DIR}/{filename}"
RemotePath(filename) == OUTPUT_DIR \o <<"/">> \o filename

(***************************************************************************)
(* generate_markdown.  A document is kept as the parsed post: its metadata *)
(* mapping and its body lines; ok = FALSE is a file python-frontmatter     *)
(* cannot parse.  Metadata keys are character sequences so that            *)
(* startswith("_") is a test of the first character.                       *)
(***************************************************************************)
KTitle == <<"title">>
KDate == <<"date">>
KCategory == <<"category">>
KOmiId == <<"_", "omi_id">>
KContentHash == <<"_", "content_hash">>
KSyncedAt == <<"_", "synced_at">>
KProject == <<"project">>

ReservedKeys == {KOmiId, KContentHash, KSyncedAt}

StartsWithUnderscore(key) == key # <<>> /\ Head(key) = "_"

\* the front matter built by generate_markdown, as key -> value pairs
NewMetadata(conversation, content_hash, t) ==
    [k \in {KTitle, KDate, KCategory, KOmiId, KContentHash, KSyncedAt} |->
        CASE k = KTitle -> [v |-> conversation.structured.title]
          [] k = KDate -> [v |-> conversation.created_at]
          [] k = KCategory -> [v |-> conversation.structured.category]
          [] k = KOmiId -> [v |-> conversation.id]
          [] k = KContentHash -> [v |-> content_hash]
          [] k = KSyncedAt -> [v |-> t]]

\* a transcript loop without the "if text" test of line 202
RECURSIVE TranscriptLinesUnfiltered(_)
TranscriptLinesUnfiltered(segs) ==
    IF segs = <<>> THEN <<>>
    ELSE << <<"**Speaker ", Digit(Head(segs).speaker_id), ":** ">> \o Strip(Head(segs).text) >>
         \o TranscriptLinesUnfiltered(Tail(segs))

RECURSIVE TranscriptLines(_)
TranscriptLines(segs) ==
    IF segs = <<>> THEN <<>>
    ELSE LET text == Strip(Head(segs).text)
         IN  (IF text # <<>>
              THEN << <<"**Speaker ", Digit(Head(segs).speaker_id), ":** ">> \o text >>
              ELSE <<>>)
             \o TranscriptLines(Tail(segs))

BodyParts(conversation) ==
    LET overview == Strip(conversation.structured.overview)
        segs == conversation.transcript_segments
    IN  << <<"## Summary">>, <<>>,
           IF overview # <<>> THEN overview ELSE <<"No summary available.">> >>
        \o (IF segs # <<>>
            THEN << <<>>, <<"## Transcript">>, <<>> >> \o TranscriptLines(segs)
            ELSE <<>>)

generate_markdown(conversation, content_hash, t) ==
    [ok |-> TRUE,
     meta |-> NewMetadata(conversation, content_hash, t),
     body |-> BodyParts(conversation)]

\* a merge in which the existing post wins (new_post.metadata.update(existing))
MergeExistingWins(existing, new) ==
    [k \in DOMAIN new \cup DOMAIN existing |->
        IF k \in DOMAIN existing THEN existing[k] ELSE new[k]]

\* the merge loop of sync_conversation: keys of the existing post that do not
\* start with "_" and are not in the new post are copied
MergeMetadata(existing, new) ==
    LET kept == {k \in DOMAIN existing : ~StartsWithUnderscore(k) /\ k \notin DOMAIN new}
    IN  [k \in DOMAIN new \cup kept |-> IF k \in DOMAIN new THEN new[k] ELSE existing[k]]

(***************************************************************************)
(* The destination store: a mapping from remote path to document.  Every   *)
(* call may raise; F says which of the calls a handler may issue raise.    *)
(***************************************************************************)
NoName == <<>>

Put(fs, path, doc) == [p \in DOMAIN fs \cup {path} |-> IF p = path THEN doc ELSE fs[p]]

Drop(fs, path) == [p \in DOMAIN fs \ {path} |-> fs[p]]

\* a move that removes the source and never creates the target
MoveLosesFile(fs, from, to) == Drop(fs, from)

\* webdav.move(src, dst, overwrite=True)
Move(fs, from, to) == IF from = to THEN fs ELSE Drop(Put(fs, to, fs[from]), from)

Op(op, path, to, ok) == [op |-> op, path |-> path, to |-> to, ok |-> ok]

AllFailChoices == [exists1 : BOOLEAN, read : BOOLEAN, write : BOOLEAN, move : BOOLEAN,
                   exists2 : BOOLEAN, remove : BOOLEAN]

Raised(F) == Cardinality({k \in DOMAIN F : F[k]})

\* the choices in which at most n calls raise
FailChoices(n) == {F \in AllFailChoices : Raised(F) <= n}

Failed(log) == Cardinality({i \in 1..Len(log) : ~log[i].ok})

Mutations(log) == Cardinality({i \in 1..Len(log) : log[i].op \in {"write", "move", "remove"}})

\* the remove calls of a log that succeeded
Removed(log) == Cardinality({i \in 1..Len(log) : log[i].op = "remove" /\ log[i].ok})

\* Entry recording the hash of something else than what was uploaded
EntryStaleHash(content_hash, filename, title) ==
    [omi_hash |-> (content_hash + 1) % HashSpace, filename |-> filename, title |-> title]

Entry(content_hash, filename, title) ==
    [omi_hash |-> content_hash, filename |-> filename, title |-> title]

SetEntry(convs, id, e) == [k \in DOMAIN convs \cup {id} |-> IF k = id THEN e ELSE convs[k]]

DelEntry(convs, id) == [k \in DOMAIN convs \ {id} |-> convs[k]]

(***************************************************************************)
(* sync_conversation(conversation, state, webdav): the result is the       *)
(* return value, the conversations mapping and the store afterwards, the   *)
(* store calls issued, and the branch taken.                               *)
(***************************************************************************)
Result(ret, convs, fs, log, class, filename, written, prior) ==
    [ret |-> ret, convs |-> convs, files |-> fs, log |-> log, class |-> class,
     filename |-> filename, written |-> written, prior |-> prior]

NoDoc == [ok |-> FALSE, meta |-> <<>>, body |-> <<>>]

\* lines 329-351: the title-only branch
RenameBranch(conversation, convs, fs, F, old_filename, filename, content_hash) ==
    LET conv_id == conversation.id
        old_remote_path == RemotePath(old_filename)
        remote_path == RemotePath(filename)
        entry == Entry(content_hash, filename, conversation.structured.title)
    IN  IF F.exists1
        THEN Result(FALSE, convs, fs, <<Op("exists", old_remote_path, NoName, FALSE)>>,
                    "TitleOnly", filename, NoDoc, NoDoc)
        ELSE IF old_remote_path \in DOMAIN fs
        THEN IF F.move
             THEN Result(FALSE, convs, fs,
                         <<Op("exists", old_remote_path, NoName, TRUE),
                           Op("move", old_remote_path, remote_path, FALSE)>>,
                         "TitleOnly", filename, NoDoc, NoDoc)
             ELSE Result(TRUE, SetEntry(convs, conv_id, entry),
                         Move(fs, old_remote_path, remote_path),
                         <<Op("exists", old_remote_path, NoName, TRUE),
                           Op("move", old_remote_path, remote_path, TRUE)>>,
                         "TitleOnly", filename, NoDoc, NoDoc)
        ELSE Result(TRUE, SetEntry(convs, conv_id, entry), fs,
                    <<Op("exists", old_remote_path, NoName, TRUE)>>,
                    "TitleOnly", filename, NoDoc, NoDoc)

\* lines 356-375: the document to upload and the store calls made to build it
PreserveMetadata(markdown_content, fs, F, metadata_source_path) ==
    IF F.exists1
    THEN [doc |-> markdown_content, prior |-> NoDoc,
          log |-> <<Op("exists", metadata_source_path, NoName, FALSE)>>]
    ELSE IF metadata_source_path \notin DOMAIN fs
    THEN [doc |-> markdown_content, prior |-> NoDoc,
          log |-> <<Op("exists", metadata_source_path, NoName, TRUE)>>]
    ELSE IF F.read
    THEN [doc |-> markdown_content, prior |-> NoDoc,
          log |-> <<Op("exists", metadata_source_path, NoName, TRUE),
                    Op("read", metadata_source_path, NoName, FALSE)>>]
    ELSE [doc |-> IF fs[metadata_source_path].ok
                  THEN [markdown_content EXCEPT
                          !.meta = MergeMetadata(fs[metadata_source_path].meta, @)]
                  ELSE markdown_content,
          prior |-> fs[metadata_source_path],
          log |-> <<Op("exists", metadata_source_path, NoName, TRUE),
                    Op("read", metadata_source_path, NoName, TRUE)>>]

\* lines 382-390: delete the old file after a rename by upload
DeleteOld(fs, F, old_filename, filename) ==
    IF old_filename # NoName /\ old_filename # filename
    THEN LET old_remote_path == RemotePath(old_filename)
         IN  IF F.exists2
             THEN [files |-> fs, log |-> <<Op("exists", old_remote_path, NoName, FALSE)>>]
             ELSE IF old_remote_path \notin DOMAIN fs
             THEN [files |-> fs, log |-> <<Op("exists", old_remote_path, NoName, TRUE)>>]
             ELSE IF F.remove
             THEN [files |-> fs,
                   log |-> <<Op("exists", old_remote_path, NoName, TRUE),
                             Op("remove", old_remote_path, NoName, FALSE)>>]
             ELSE [files |-> Drop(fs, old_remote_path),
                   log |-> <<Op("exists", old_remote_path, NoName, TRUE),
                             Op("remove", old_remote_path, NoName, TRUE)>>]
    ELSE [files |-> fs, log |-> <<>>]

\* an upload that deletes the old file first and writes the new one afterwards
UploadBranchDeleteFirst(conversation, convs, fs, t, F, old_filename, filename, content_hash, class) ==
    LET conv_id == conversation.id
        remote_path == RemotePath(filename)
        markdown_content == generate_markdown(conversation, content_hash, t)
        metadata_source_path ==
            IF old_filename # NoName THEN RemotePath(old_filename) ELSE remote_path
        pre == PreserveMetadata(markdown_content, fs, F, metadata_source_path)
        entry == Entry(content_hash, filename, conversation.structured.title)
        del == DeleteOld(fs, F, old_filename, filename)
    IN  IF F.write
        THEN Result(FALSE, convs, del.files,
                    pre.log \o del.log \o <<Op("write", remote_path, NoName, FALSE)>>,
                    class, filename, NoDoc, pre.prior)
        ELSE Result(TRUE, SetEntry(convs, conv_id, entry),
                    Put(del.files, remote_path, pre.doc),
                    pre.log \o del.log \o <<Op("write", remote_path, NoName, TRUE)>>,
                    class, filename, pre.doc, pre.prior)

\* lines 353-408: regenerate and upload
UploadBranch(conversation, convs, fs, t, F, old_filename, filename, content_hash, class) ==
    LET conv_id == conversation.id
        remote_path == RemotePath(filename)
        markdown_content == generate_markdown(conversation, content_hash, t)
        metadata_source_path ==
            IF old_filename # NoName THEN RemotePath(old_filename) ELSE remote_path
        pre == PreserveMetadata(markdown_content, fs, F, metadata_source_path)
        entry == Entry(content_hash, filename, conversation.structured.title)
    IN  IF F.write
        THEN Result(FALSE, convs, fs,
                    pre.log \o <<Op("write", remote_path, NoName, FALSE)>>,
                    class, filename, NoDoc, pre.prior)
        ELSE LET uploaded == Put(fs, remote_path, pre.doc)
                 del == DeleteOld(uploaded, F, old_filename, filename)
             IN  Result(TRUE, SetEntry(convs, conv_id, entry), del.files,
                        pre.log \o <<Op("write", remote_path, NoName, TRUE)>> \o del.log,
                        class, filename, pre.doc, pre.prior)

\* a rename test that forgets the fingerprint: every title change is a rename
TitleOnlyChangeAnyContent(title_changed, content_changed, old_filename) ==
    title_changed /\ old_filename # NoName

\* line 329: the condition of the rename branch
TitleOnlyChange(title_changed, content_changed, old_filename) ==
    title_changed /\ ~content_changed /\ old_filename # NoName

sync_conversation(conversation, convs, fs, t, F) ==
    LET conv_id == conversation.id
        current_title == conversation.structured.title
        created_at == conversation.created_at
        content_hash == compute_content_hash(conversation)
        has_state == conv_id \in DOMAIN convs
        stored_title == IF has_state THEN convs[conv_id].title ELSE <<>>
        title_changed == has_state /\ stored_title # <<>> /\ stored_title # current_title
        content_changed == IF has_state THEN convs[conv_id].omi_hash # content_hash ELSE TRUE
        has_filename == has_state /\ convs[conv_id].filename # NoName
        old_filename == IF has_filename /\ title_changed THEN convs[conv_id].filename ELSE NoName
        temp_convs == DelEntry(convs, conv_id)
        filename ==
            IF has_filename
            THEN IF title_changed
                 THEN generate_filename(current_title, created_at, temp_convs, t)
                 ELSE convs[conv_id].filename
            ELSE generate_filename(current_title, created_at, convs, t)
        class == IF ~has_state THEN "New"
                 ELSE IF content_changed THEN "ContentChanged" ELSE "TitleOnly"
    IN  IF conv_id = ""
        THEN Result(FALSE, convs, fs, <<>>, "NoId", NoName, NoDoc, NoDoc)
        ELSE IF has_state /\ ~title_changed /\ ~content_changed
        THEN Result(FALSE, convs, fs, <<>>, "Unchanged", NoName, NoDoc, NoDoc)
        ELSE IF TitleOnlyChange(title_changed, content_changed, old_filename)
        THEN RenameBranch(conversation, convs, fs, F, old_filename, filename, content_hash)
        ELSE UploadBranch(conversation, convs, fs, t, F, old_filename, filename,
                          content_hash, class)

(***************************************************************************)
(* State.                                                                  *)
(***************************************************************************)
VARIABLES
    running,        \* the global shutdown flag
    pc,             \* where main() is
    now,            \* the clock: the number of the current cycle
    src,            \* the records of the source: id -> [title, body, created_at]
    state,          \* the sync state: [version, last_sync, conversations]
    saved,          \* the state file: its content and how often it was written
    files,          \* the destination store: remote path -> document
    dirExists,      \* whether OUTPUT_DIR exists at the destination
    conversations,  \* fetch_conversations: the list accumulated so far
    offset,         \* fetch_conversations: the next offset
    fetched,        \* run_sync_cycle: the value fetch_conversations returned
    todoDel,        \* handle_deletions: deleted_ids not yet visited
    idx,            \* run_sync_cycle: position in the conversations loop
    edits,          \* source changes so far
    failures,       \* store calls that raised so far
    userEdits,      \* user edits so far
    rateLimits,     \* fetch_conversations: 429 answers to this call
    hist,           \* the current cycle: state at its start, calls issued
    last            \* the last handler that ran and what it did

vars == <<running, pc, now, src, state, saved, files, dirExists, conversations, offset,
          fetched, todoDel, idx, edits, failures, userEdits, rateLimits, hist, last>>

NoSync == -1

EmptyState == [version |-> 1, last_sync |-> NoSync, conversations |-> <<>>]

\* the value None of fetch_conversations, and a returned list
FetchNone == [called |-> TRUE, ok |-> FALSE, list |-> <<>>]
FetchList(l) == [called |-> TRUE, ok |-> TRUE, list |-> l]
\* fetch_conversations has not returned in this cycle
NotFetched == [called |-> FALSE, ok |-> FALSE, list |-> <<>>]

SourceRecords == [title : Titles, body : Bodies, created_at : Dates]

\* the complete listing of the source, in listing order
RECURSIVE Listing(_, _)
Listing(s, i) ==
    IF i > Len(IdOrder) THEN <<>>
    ELSE (IF IdOrder[i] \in DOMAIN s THEN <<Conversation(IdOrder[i], s[IdOrder[i]])>> ELSE <<>>)
         \o Listing(s, i + 1)

SourceList == Listing(src, 1)

\* {c.get("id") for c in conversations if c.get("id")}
IdsOf(l) == {l[i].id : i \in {j \in 1..Len(l) : l[j].id # ""}}

NoLast == [kind |-> "none", id |-> "", ret |-> FALSE, log |-> <<>>, class |-> "",
           filename |-> NoName, written |-> NoDoc, prior |-> NoDoc]

NewHist(st) ==
    [start |-> st, mutations |-> 0, sweepCalled |-> FALSE, clean |-> TRUE,
     prevClean |-> FALSE, prevList |-> <<>>, syncCalls |-> 0, sweepRemoved |-> 0]

\* the creation dates a record of this id can have: r1 and r2 share a date
DatesOf(id) == IF id = "r3" THEN Dates ELSE {D1}

\* the sources the service can start against: the first records of the listing,
\* each titled "a" with the first content (r1 and r2 are interchangeable), or
\* one record with an empty title
InitSources ==
    {s \in UNION {[{IdOrder[i] : i \in 1..n} ->
                      {r \in SourceRecords : r.title = <<"a">> /\ r.body = 1}] :
                    n \in 0..Len(IdOrder)} :
        \A id \in DOMAIN s : s[id].created_at \in DatesOf(id)}
    \cup {[id \in {"r1"} |-> [title |-> <<>>, body |-> 1, created_at |-> D1]]}

Init ==
    /\ running = TRUE
    /\ pc = "loop"
    /\ now = 0
    /\ src \in InitSources
    /\ state = EmptyState
    /\ saved = [content |-> EmptyState, writes |-> 0]
    /\ files = <<>>
    /\ dirExists = FALSE
    /\ conversations = <<>>
    /\ offset = 0
    /\ fetched = NotFetched
    /\ todoDel = {}
    /\ idx = 0
    /\ edits = 0
    /\ failures = 0
    /\ userEdits = 0
    /\ rateLimits = 0
    /\ hist = NewHist(EmptyState)
    /\ last = NoLast

(***************************************************************************)
(* signal_handler                                                          *)
(***************************************************************************)
signal_handler ==
    /\ running
    /\ pc # "done"
    /\ running' = FALSE
    /\ UNCHANGED <<pc, now, src, state, saved, files, dirExists, conversations, offset,
                   fetched, todoDel, idx, edits, failures, userEdits, rateLimits, hist, last>>

(***************************************************************************)
(* main: the while loop, the sleep and the final save                      *)
(***************************************************************************)
\* line 547, condition true: enter run_sync_cycle, for the first n cycles
MainLoopEnterUpTo(n) ==
    /\ pc = "loop"
    /\ running
    /\ now < n
    /\ now' = now + 1
    /\ pc' = "dir"
    /\ hist' = [start |-> state, mutations |-> 0, sweepCalled |-> FALSE, clean |-> TRUE,
                prevClean |-> hist.clean /\ now > 0, prevList |-> hist.prevList,
                syncCalls |-> 0, sweepRemoved |-> 0]
    /\ UNCHANGED <<running, src, state, saved, files, dirExists, conversations, offset,
                   fetched, todoDel, idx, edits, failures, userEdits, rateLimits, last>>

MainLoopEnter == MainLoopEnterUpTo(MaxCycles)

\* leaving the loop without the save of line 561
MainLoopExitNoSave ==
    /\ pc = "loop"
    /\ ~running
    /\ pc' = "done"
    /\ UNCHANGED <<running, now, src, state, saved, files, dirExists, conversations, offset,
                   fetched, todoDel, idx, edits, failures, userEdits, rateLimits, hist, last>>

\* line 547, condition false; lines 560-563
MainLoopExit ==
    /\ pc = "loop"
    /\ ~running
    /\ saved' = [content |-> state, writes |-> saved.writes + 1]
    /\ pc' = "done"
    /\ UNCHANGED <<running, now, src, state, files, dirExists, conversations, offset,
                   fetched, todoDel, idx, edits, failures, userEdits, rateLimits, hist, last>>

\* line 550, after run_sync_cycle returned: its locals are gone; of the cycle,
\* what the next one is compared with is kept
save_state ==
    /\ pc = "save"
    /\ saved' = [content |-> state, writes |-> saved.writes + 1]
    /\ pc' = "sleep"
    /\ conversations' = <<>>
    /\ offset' = 0
    /\ idx' = 0
    /\ todoDel' = {}
    /\ rateLimits' = 0
    /\ fetched' = NotFetched
    /\ hist' = [start |-> state, mutations |-> 0, sweepCalled |-> FALSE,
                clean |-> hist.clean, prevClean |-> FALSE,
                prevList |-> IF hist.clean THEN fetched.list ELSE <<>>,
                syncCalls |-> 0, sweepRemoved |-> 0]
    /\ last' = NoLast
    /\ UNCHANGED <<running, now, src, state, files, dirExists, edits, failures, userEdits>>

\* lines 555-558
Sleep ==
    /\ pc = "sleep"
    /\ pc' = "loop"
    /\ UNCHANGED <<running, now, src, state, saved, files, dirExists, conversations, offset,
                   fetched, todoDel, idx, edits, failures, userEdits, rateLimits, hist, last>>

(***************************************************************************)
(* run_sync_cycle, lines 470-479: the client and the output directory      *)
(***************************************************************************)
\* ensure_output_directory succeeds (creating the directory when missing)
ensure_output_directory ==
    /\ pc = "dir"
    /\ dirExists' = TRUE
    /\ conversations' = <<>>
    /\ offset' = 0
    /\ rateLimits' = 0
    /\ pc' = "fetch"
    /\ UNCHANGED <<running, now, src, state, saved, files, fetched, todoDel, idx, edits,
                   failures, userEdits, hist, last>>

\* the client constructor, exists(OUTPUT_DIR) or mkdir raises: return state
EnsureDirFails ==
    /\ pc = "dir"
    /\ failures < MaxFailures
    /\ failures' = failures + 1
    /\ hist' = [hist EXCEPT !.clean = FALSE]
    /\ pc' = "save"
    /\ UNCHANGED <<running, now, src, state, saved, files, dirExists, conversations, offset,
                   fetched, todoDel, idx, edits, userEdits, rateLimits, last>>

(***************************************************************************)
(* fetch_conversations, one action per iteration of its loop, and the      *)
(* return into run_sync_cycle (lines 482-491)                              *)
(***************************************************************************)
\* deleted_ids of handle_deletions (lines 429-430)
DeletedIds(convs, l) == DOMAIN convs \ IdsOf(l)

\* FetchReturns without the "conversations is None" guard of lines 485-487
FetchReturnsUnguarded(res) ==
    /\ fetched' = res
    /\ pc' = "sweep"
    /\ todoDel' = DeletedIds(state.conversations, res.list)
    /\ hist' = [hist EXCEPT !.sweepCalled = TRUE, !.clean = @ /\ res.ok]

\* fetch_conversations returns res; run_sync_cycle goes on from line 485
FetchReturns(res) ==
    /\ fetched' = res
    /\ IF res.ok
       THEN /\ pc' = "sweep"
            /\ todoDel' = DeletedIds(state.conversations, res.list)
            /\ hist' = [hist EXCEPT !.sweepCalled = TRUE]
       ELSE /\ pc' = "save"
            /\ todoDel' = todoDel
            /\ hist' = [hist EXCEPT !.clean = FALSE]

\* lines 221-223: the flag is down, break and return what was accumulated
FetchShutdown ==
    /\ pc = "fetch"
    /\ ~running
    /\ FetchReturns(FetchList(conversations))
    /\ UNCHANGED <<running, now, src, state, saved, files, dirExists, conversations, offset,
                   idx, edits, failures, userEdits, rateLimits, last>>

\* lines 261-263: RequestException, return None
FetchError ==
    /\ pc = "fetch"
    /\ running
    /\ failures < MaxFailures
    /\ failures' = failures + 1
    /\ FetchReturns(FetchNone)
    /\ UNCHANGED <<running, now, src, state, saved, files, dirExists, conversations, offset,
                   idx, edits, userEdits, rateLimits, last>>

\* lines 239-244: 429, sleep and try the same offset again
FetchRateLimited ==
    /\ pc = "fetch"
    /\ running
    /\ rateLimits < MaxRateLimits
    /\ rateLimits' = rateLimits + 1
    /\ UNCHANGED <<running, pc, now, src, state, saved, files, dirExists, conversations,
                   offset, fetched, todoDel, idx, edits, failures, userEdits, hist, last>>

\* lines 246-259: one page
FetchPage ==
    /\ pc = "fetch"
    /\ running
    /\ LET all == SourceList
           page == SubSeq(all, offset + 1, Min(offset + OMI_PAGE_SIZE, Len(all)))
       IN  IF page = <<>>
           THEN /\ FetchReturns(FetchList(conversations))
                /\ UNCHANGED <<conversations, offset>>
           ELSE /\ conversations' = conversations \o page
                /\ IF Len(page) < OMI_PAGE_SIZE
                   THEN /\ FetchReturns(FetchList(conversations \o page))
                        /\ UNCHANGED offset
                   ELSE /\ offset' = offset + OMI_PAGE_SIZE
                        /\ UNCHANGED <<pc, fetched, todoDel, hist>>
    /\ UNCHANGED <<running, now, src, state, saved, files, dirExists, idx, edits, failures,
                   userEdits, rateLimits, last>>

(***************************************************************************)
(* handle_deletions, one action per iteration of its loop                  *)
(***************************************************************************)
\* an iteration that drops the entry whatever the store answered
DeleteOneAlwaysDrops(convs, fs, F, conv_id) ==
    LET filename == convs[conv_id].filename
        remote_path == RemotePath(filename)
    IN  IF filename = NoName
        THEN [convs |-> DelEntry(convs, conv_id), files |-> fs, log |-> <<>>]
        ELSE IF F.exists1
        THEN [convs |-> DelEntry(convs, conv_id), files |-> fs,
              log |-> <<Op("exists", remote_path, NoName, FALSE)>>]
        ELSE IF remote_path \notin DOMAIN fs
        THEN [convs |-> DelEntry(convs, conv_id), files |-> fs,
              log |-> <<Op("exists", remote_path, NoName, TRUE)>>]
        ELSE IF F.remove
        THEN [convs |-> DelEntry(convs, conv_id), files |-> fs,
              log |-> <<Op("exists", remote_path, NoName, TRUE),
                        Op("remove", remote_path, NoName, FALSE)>>]
        ELSE [convs |-> DelEntry(convs, conv_id), files |-> Drop(fs, remote_path),
              log |-> <<Op("exists", remote_path, NoName, TRUE),
                        Op("remove", remote_path, NoName, TRUE)>>]

\* one iteration (lines 442-461) for conv_id: conversations, store and calls
DeleteOne(convs, fs, F, conv_id) ==
    LET filename == convs[conv_id].filename
        remote_path == RemotePath(filename)
    IN  IF filename = NoName
        THEN [convs |-> DelEntry(convs, conv_id), files |-> fs, log |-> <<>>]
        ELSE IF F.exists1
        THEN [convs |-> convs, files |-> fs,
              log |-> <<Op("exists", remote_path, NoName, FALSE)>>]
        ELSE IF remote_path \notin DOMAIN fs
        THEN [convs |-> DelEntry(convs, conv_id), files |-> fs,
              log |-> <<Op("exists", remote_path, NoName, TRUE)>>]
        ELSE IF F.remove
        THEN [convs |-> convs, files |-> fs,
              log |-> <<Op("exists", remote_path, NoName, TRUE),
                        Op("remove", remote_path, NoName, FALSE)>>]
        ELSE [convs |-> DelEntry(convs, conv_id), files |-> Drop(fs, remote_path),
              log |-> <<Op("exists", remote_path, NoName, TRUE),
                        Op("remove", remote_path, NoName, TRUE)>>]

\* lines 439-440: the flag is down, leave the loop
SweepBreak ==
    /\ pc = "sweep"
    /\ todoDel # {}
    /\ ~running
    /\ todoDel' = {}
    /\ hist' = [hist EXCEPT !.clean = FALSE]
    /\ UNCHANGED <<running, pc, now, src, state, saved, files, dirExists, conversations,
                   offset, fetched, idx, edits, failures, userEdits, rateLimits, last>>

SweepStep ==
    /\ pc = "sweep"
    /\ running
    /\ \E conv_id \in todoDel, F \in FailChoices(MaxFailures - failures) :
          LET r == DeleteOne(state.conversations, files, F, conv_id)
          IN  /\ failures + Failed(r.log) <= MaxFailures
              /\ failures' = failures + Failed(r.log)
              /\ state' = [state EXCEPT !.conversations = r.convs]
              /\ files' = r.files
              /\ todoDel' = todoDel \ {conv_id}
              /\ hist' = [hist EXCEPT !.mutations = @ + Mutations(r.log),
                                      !.clean = @ /\ Failed(r.log) = 0,
                                      !.sweepRemoved = @ + Removed(r.log)]
              /\ last' = [kind |-> "sweep", id |-> conv_id,
                          ret |-> conv_id \notin DOMAIN r.convs, log |-> r.log,
                          class |-> "", filename |-> state.conversations[conv_id].filename,
                          written |-> NoDoc, prior |-> NoDoc]
    /\ UNCHANGED <<running, pc, now, src, saved, dirExists, conversations, offset, fetched,
                   idx, edits, userEdits, rateLimits>>

\* handle_deletions returning before its loop has visited every deleted id
SweepDoneEarly ==
    /\ pc = "sweep"
    /\ IF fetched.list = <<>>
       THEN pc' = "save" /\ idx' = idx
       ELSE pc' = "sync" /\ idx' = 1
    /\ UNCHANGED <<running, now, src, state, saved, files, dirExists, conversations, offset,
                   fetched, todoDel, edits, failures, userEdits, rateLimits, hist, last>>

\* handle_deletions returns; lines 493-503
SweepDone ==
    /\ pc = "sweep"
    /\ todoDel = {}
    /\ IF fetched.list = <<>>
       THEN pc' = "save" /\ idx' = idx
       ELSE pc' = "sync" /\ idx' = 1
    /\ UNCHANGED <<running, now, src, state, saved, files, dirExists, conversations, offset,
                   fetched, todoDel, edits, failures, userEdits, rateLimits, hist, last>>

(***************************************************************************)
(* run_sync_cycle, lines 503-523: the loop over the fetched conversations  *)
(***************************************************************************)
\* lines 504-506 and 520-523
SyncBreak ==
    /\ pc = "sync"
    /\ idx <= Len(fetched.list)
    /\ ~running
    /\ state' = [state EXCEPT !.last_sync = now]
    /\ hist' = [hist EXCEPT !.clean = FALSE]
    /\ pc' = "save"
    /\ UNCHANGED <<running, now, src, saved, files, dirExists, conversations, offset,
                   fetched, todoDel, idx, edits, failures, userEdits, rateLimits, last>>

\* lines 508-517: one conversation
SyncStep ==
    /\ pc = "sync"
    /\ idx <= Len(fetched.list)
    /\ running
    /\ \E F \in FailChoices(MaxFailures - failures) :
          LET r == sync_conversation(fetched.list[idx], state.conversations, files, now, F)
          IN  /\ failures + Failed(r.log) <= MaxFailures
              /\ failures' = failures + Failed(r.log)
              /\ state' = [state EXCEPT !.conversations = r.convs]
              /\ files' = r.files
              /\ hist' = [hist EXCEPT !.mutations = @ + Mutations(r.log),
                                      !.clean = @ /\ Failed(r.log) = 0,
                                      !.syncCalls = @ + 1]
              /\ last' = [kind |-> "sync", id |-> fetched.list[idx].id, ret |-> r.ret,
                          log |-> r.log, class |-> r.class, filename |-> r.filename,
                          written |-> r.written, prior |-> r.prior]
    /\ idx' = idx + 1
    /\ UNCHANGED <<running, pc, now, src, saved, dirExists, conversations, offset, fetched,
                   todoDel, edits, userEdits, rateLimits>>

\* lines 519-523
SyncDone ==
    /\ pc = "sync"
    /\ idx > Len(fetched.list)
    /\ state' = [state EXCEPT !.last_sync = now]
    /\ pc' = "save"
    /\ UNCHANGED <<running, now, src, saved, files, dirExists, conversations, offset,
                   fetched, todoDel, idx, edits, failures, userEdits, rateLimits, hist, last>>

(***************************************************************************)
(* The environment: the source changes between cycles, and the user edits  *)
(* the front matter of a destination file.                                 *)
(***************************************************************************)
SourceAdd ==
    /\ pc = "sleep"
    /\ running
    /\ now < MaxCycles
    /\ edits < MaxEdits
    /\ \E id \in Ids \ DOMAIN src, r \in SourceRecords :
          /\ r.created_at \in DatesOf(id)
          /\ src' = [k \in DOMAIN src \cup {id} |-> IF k = id THEN r ELSE src[k]]
    /\ edits' = edits + 1
    /\ UNCHANGED <<running, pc, now, state, saved, files, dirExists, conversations, offset,
                   fetched, todoDel, idx, failures, userEdits, rateLimits, hist, last>>

SourceEdit ==
    /\ pc = "sleep"
    /\ running
    /\ now < MaxCycles
    /\ edits < MaxEdits
    /\ \E id \in DOMAIN src, r \in SourceRecords :
          /\ r.created_at = src[id].created_at
          /\ r # src[id]
          /\ src' = [src EXCEPT ![id] = r]
    /\ edits' = edits + 1
    /\ UNCHANGED <<running, pc, now, state, saved, files, dirExists, conversations, offset,
                   fetched, todoDel, idx, failures, userEdits, rateLimits, hist, last>>

SourceDelete ==
    /\ pc = "sleep"
    /\ running
    /\ now < MaxCycles
    /\ edits < MaxEdits
    /\ \E id \in DOMAIN src : src' = [k \in DOMAIN src \ {id} |-> src[k]]
    /\ edits' = edits + 1
    /\ UNCHANGED <<running, pc, now, state, saved, files, dirExists, conversations, offset,
                   fetched, todoDel, idx, failures, userEdits, rateLimits, hist, last>>

\* the user adds a key to the front matter of a file, or leaves it unparseable
UserEdit ==
    /\ pc = "sleep"
    /\ running
    /\ now < MaxCycles
    /\ userEdits < MaxUserEdits
    /\ \E path \in DOMAIN files :
          /\ files[path].ok
          /\ \/ \E key \in {KProject} :
                   /\ key \notin DOMAIN files[path].meta
                   /\ files' = [files EXCEPT ![path].meta =
                                   [k \in DOMAIN @ \cup {key} |->
                                       IF k = key THEN [v |-> "x"] ELSE @[k]]]
             \/ files' = [files EXCEPT ![path] = NoDoc]
    /\ userEdits' = userEdits + 1
    /\ UNCHANGED <<running, pc, now, src, state, saved, dirExists, conversations, offset,
                   fetched, todoDel, idx, edits, failures, rateLimits, hist, last>>

Next ==
    \/ signal_handler
    \/ MainLoopEnter
    \/ MainLoopExit
    \/ save_state
    \/ Sleep
    \/ ensure_output_directory
    \/ EnsureDirFails
    \/ FetchShutdown
    \/ FetchError
    \/ FetchRateLimited
    \/ FetchPage
    \/ SweepBreak
    \/ SweepStep
    \/ SweepDone
    \/ SyncBreak
    \/ SyncStep
    \/ SyncDone
    \/ SourceAdd
    \/ SourceEdit
    \/ SourceDelete
    \/ UserEdit

Spec == Init /\ [][Next]_vars

(***************************************************************************)
(* Properties.                                                             *)
(***************************************************************************)
InCycle == pc \in {"fetch", "sweep", "sync", "save"}

\* C1: when fetch_conversations returns None, the cycle does not call
\* handle_deletions, issues no write, move or remove, and returns the state
\* it was given (same entries, same last_sync).
C1_FetchFailureLeavesState ==
    (fetched.called /\ ~fetched.ok) =>
        /\ ~hist.sweepCalled
        /\ hist.mutations = 0
        /\ state = hist.start
        /\ pc = "save"

\* a failed fetch while the state holds an entry whose record left the source
C1_Witness ==
    /\ fetched.called /\ ~fetched.ok
    /\ DOMAIN state.conversations \ DOMAIN src # {}
    /\ files # <<>>

\* C2: no two state entries hold the same filename.
C2_UniqueFilenames ==
    \A i, j \in DOMAIN state.conversations :
        i # j => state.conversations[i].filename # state.conversations[j].filename

\* C3: after a cycle whose fetch succeeded and in which every record was
\* processed with no store call raising, a cycle whose fetch returns the same
\* list issues no write, move or remove and leaves every entry as it was.
C3_Idempotent ==
    (InCycle /\ hist.prevClean /\ fetched.ok /\ fetched.list = hist.prevList) =>
        /\ hist.mutations = 0
        /\ state.conversations = hist.start.conversations

\* the second of two cycles over the same three records, run to its end
C3_Witness ==
    /\ pc = "save"
    /\ running
    /\ hist.prevClean /\ hist.clean
    /\ fetched.ok /\ fetched.list = hist.prevList
    /\ Len(fetched.list) = 3
    /\ idx > Len(fetched.list)

\* the step is one call of sync_conversation by the loop of run_sync_cycle
SyncStepped == pc = "sync" /\ running /\ idx' = idx + 1

\* the step is one iteration of handle_deletions, for conv_id
SweepStepped(conv_id) ==
    pc = "sweep" /\ running /\ conv_id \in todoDel /\ todoDel' = todoDel \ {conv_id}

Calls(log, op) == {i \in 1..Len(log) : log[i].op = op}

\* C4 as stated: a title-only change (equal fingerprint, stored title
\* non-empty and different) issues exactly one move and no write.
C4_ExactlyOneMove ==
    (last.kind = "sync" /\ last.class = "TitleOnly") =>
        /\ Cardinality(Calls(last.log, "move")) = 1
        /\ Cardinality(Calls(last.log, "write")) = 0

\* C4 (amended): a title-only change issues no write and at most one move:
\* exactly one move from the old path to the new path when the existence check
\* on the old path succeeds and finds the file, none when that check raises or
\* finds no file; a successful move leaves at the new path the bytes that were
\* at the old path, and nothing else in the store changes.
C4_RenameMovesWhenPresent ==
    [][(SyncStepped /\ last'.class = "TitleOnly") =>
         LET old == RemotePath(state.conversations[last'.id].filename)
             new == RemotePath(last'.filename)
             log == last'.log
         IN  /\ Calls(log, "write") = {}
             /\ Len(log) >= 1
             /\ log[1] = Op("exists", old, NoName, log[1].ok)
             /\ IF log[1].ok /\ old \in DOMAIN files
                THEN /\ Len(log) = 2
                     /\ log[2] = Op("move", old, new, log[2].ok)
                     /\ IF log[2].ok
                        THEN /\ DOMAIN files' = (DOMAIN files \ {old}) \cup {new}
                             /\ files'[new] = files[old]
                             /\ \A p \in DOMAIN files' \ {new} : files'[p] = files[p]
                        ELSE files' = files
                ELSE /\ Len(log) = 1
                     /\ files' = files]_vars

\* a rename that moved a file carrying a key the user added
C4_Witness ==
    /\ last.kind = "sync" /\ last.class = "TitleOnly" /\ last.ret
    /\ Calls(last.log, "move") # {}
    /\ RemotePath(last.filename) \in DOMAIN files
    /\ files[RemotePath(last.filename)].ok
    /\ KProject \in DOMAIN files[RemotePath(last.filename)].meta

\* C5: when a content-triggered regeneration writes the document of a record
\* that has a destination document, every key of the prior document that does
\* not start with an underscore and is not a key of the new metadata is in the
\* written document with its prior value.
C5_UserKeysSurvive ==
    [][(/\ SyncStepped
        /\ last'.class = "ContentChanged"
        /\ last'.written.ok
        /\ RemotePath(state.conversations[last'.id].filename) \in DOMAIN files
        /\ files[RemotePath(state.conversations[last'.id].filename)].ok) =>
         LET prior == files[RemotePath(state.conversations[last'.id].filename)]
             fresh == NewMetadata(fetched.list[idx],
                                  compute_content_hash(fetched.list[idx]), now)
         IN  \A k \in DOMAIN prior.meta :
                (~StartsWithUnderscore(k) /\ k \notin DOMAIN fresh) =>
                    /\ k \in DOMAIN last'.written.meta
                    /\ last'.written.meta[k] = prior.meta[k]]_vars

\* C6: in every document a regeneration writes, the keys _omi_id,
\* _content_hash and _synced_at carry the newly computed values, never those
\* of the prior document; the document is what the store holds afterwards.
C6_ReservedKeysFresh ==
    (last.kind = "sync" /\ last.written.ok) =>
        LET c == fetched.list[idx - 1]
            meta == last.written.meta
        IN  /\ ReservedKeys \subseteq DOMAIN meta
            /\ meta[KOmiId].v = c.id
            /\ meta[KContentHash].v = compute_content_hash(c)
            /\ meta[KSyncedAt].v = now
            /\ files[RemotePath(last.filename)] = last.written

\* a regeneration over a prior document whose hash and sync time were others
C6_Witness ==
    /\ last.kind = "sync" /\ last.written.ok /\ last.prior.ok
    /\ last.prior.meta[KContentHash] # last.written.meta[KContentHash]
    /\ last.prior.meta[KSyncedAt] # last.written.meta[KSyncedAt]
    /\ KProject \in DOMAIN last.written.meta

\* C7: a new record whose sanitized name is free receives sanitize(title).md;
\* a new record synced after a record with the same sanitized title and the
\* same creation date that holds sanitize(title).md receives
\* sanitize(title)_MMDDYYYY.md (when no entry holds that), a different name.
C7_SecondGetsDateSuffix ==
    [][(SyncStepped /\ last'.class = "New" /\ last'.ret) =>
         LET c == fetched.list[idx]
             base == sanitize_title(c.structured.title)
             plain == base \o <<".md">>
             dated == base \o <<"_">> \o Pad2(c.created_at.m) \o Pad2(c.created_at.d)
                           \o Pad4(c.created_at.y) \o <<".md">>
             used == ExistingFiles(state.conversations)
             given == state'.conversations[c.id].filename
         IN  /\ plain \notin used => given = plain
             /\ (/\ dated \notin used
                 /\ \E j \in 1..(idx - 1) :
                       /\ fetched.list[j].id \in DOMAIN state.conversations
                       /\ sanitize_title(fetched.list[j].structured.title) = base
                       /\ fetched.list[j].created_at = c.created_at
                       /\ state.conversations[fetched.list[j].id].filename = plain)
                => (given = dated /\ given # plain)]_vars

\* two records titled alike and created the same day, the second just synced
C7_Witness ==
    /\ last.kind = "sync" /\ last.class = "New" /\ last.ret
    /\ \E i \in DOMAIN state.conversations \ {last.id} :
          /\ sanitize_title(state.conversations[i].title)
                = sanitize_title(state.conversations[last.id].title)
          /\ i \in DOMAIN src /\ last.id \in DOMAIN src
          /\ src[i].created_at = src[last.id].created_at
          /\ state.conversations[i].filename
                = sanitize_title(state.conversations[i].title) \o <<".md">>
          /\ state.conversations[last.id].filename
                = sanitize_title(state.conversations[i].title)
                  \o <<"_", "0", "3", "0", "9", "2", "0", "2", "4", ".md">>

\* C8: fetch_conversations returns the complete list of the source's records
\* or None, also when the shutdown flag is set between two pages.
C8_FetchCompleteOrNone ==
    fetched.ok => fetched.list = SourceList

\* C9: a record during whose processing a store call raised is reported as
\* not synced (sync_conversation returns False).
C9_FailureMeansNotSynced ==
    (last.kind = "sync" /\ Failed(last.log) > 0) => ~last.ret

\* C10: an entry leaves the state only in the deletion sweep, for an id absent
\* from the latest fetch, after its file was removed or found absent (or it has
\* no filename); when the existence check or the removal raises, the entry and
\* the store stay as they were.
C10_SweepDropsOnlyConfirmed ==
    [][\A id \in DOMAIN state.conversations :
         /\ id \notin DOMAIN state'.conversations =>
               /\ SweepStepped(id)
               /\ id \notin IdsOf(fetched.list)
               /\ Failed(last'.log) = 0
               /\ \/ state.conversations[id].filename = NoName
                  \/ RemotePath(state.conversations[id].filename) \notin DOMAIN files'
         /\ (SweepStepped(id) /\ Failed(last'.log) > 0) =>
               /\ id \in DOMAIN state'.conversations
               /\ state'.conversations = state.conversations
               /\ files' = files]_vars

\* a sweep in which the removal raised and the entry stayed
C10_Witness ==
    /\ last.kind = "sweep"
    /\ \E i \in Calls(last.log, "remove") : ~last.log[i].ok
    /\ last.id \in DOMAIN state.conversations
    /\ last.id \notin IdsOf(fetched.list)

\* C11 as the spec states it: an iteration of the deletion sweep runs only once
\* every fetched record of the cycle has been handed to sync_conversation.
C11_SweepAfterSync ==
    [][(\E conv_id \in Ids : SweepStepped(conv_id))
          => hist.syncCalls = Len(fetched.list)]_vars

\* C11, amended: within a cycle the deletion sweep runs before the per-record
\* loop. An iteration of the sweep happens only while no fetched record of the
\* cycle has been handed to sync_conversation, and sync_conversation is called
\* only once the sweep was called and has left no deleted id unvisited.
C11_SweepBeforeSync ==
    [][/\ (\E conv_id \in Ids : SweepStepped(conv_id)) => hist.syncCalls = 0
       /\ SyncStepped => hist.sweepCalled /\ todoDel = {}]_vars

\* a cycle in which the sweep removed a file and a record was written afterwards
C11_Witness ==
    /\ hist.sweepRemoved > 0
    /\ last.kind = "sync"
    /\ \E i \in Calls(last.log, "write") : last.log[i].ok

(***************************************************************************)
(* The change classification of sync_conversation.                         *)
(***************************************************************************)
\* the reference rules, read off the stored entry and the fetched record
RefClass(conversation, convs) ==
    IF conversation.id \notin DOMAIN convs THEN "New"
    ELSE LET entry == convs[conversation.id]
             titleChanged == entry.title # <<>> /\ entry.title # conversation.structured.title
             contentChanged == entry.omi_hash # compute_content_hash(conversation)
         IN  IF ~titleChanged /\ ~contentChanged THEN "Unchanged"
             ELSE IF contentChanged THEN "ContentChanged"
             ELSE "TitleOnly"

\* C12: every call of sync_conversation takes the branch the reference rules
\* name. No entry is New; an unchanged title and fingerprint is Unchanged and
\* issues no store call and changes nothing; a changed fingerprint is
\* ContentChanged whatever the title did, and New and ContentChanged attempt a
\* write and no move; a changed title alone is TitleOnly, which issues no
\* write and no read, only the existence check and the move of the old path.
C12_Classification ==
    [][SyncStepped =>
        LET conversation == fetched.list[idx]
            ref == RefClass(conversation, state.conversations)
            log == last'.log
        IN  /\ last'.class = ref
            /\ ref = "Unchanged" =>
                  /\ log = <<>>
                  /\ files' = files
                  /\ state'.conversations = state.conversations
            /\ ref \in {"New", "ContentChanged"} =>
                  /\ Cardinality(Calls(log, "write")) = 1
                  /\ Calls(log, "move") = {}
            /\ ref = "TitleOnly" =>
                  /\ Calls(log, "write") = {}
                  /\ Calls(log, "read") = {}
                  /\ Calls(log, "remove") = {}
                  /\ \A i \in Calls(log, "move") :
                        log[i].path =
                            RemotePath(state.conversations[conversation.id].filename)]_vars

\* a record whose title and fingerprint both changed was regenerated and written
C12_Witness ==
    /\ last.kind = "sync"
    /\ last.class = "ContentChanged"
    /\ last.id \in DOMAIN hist.start.conversations
    /\ hist.start.conversations[last.id].title # state.conversations[last.id].title
    /\ \E i \in Calls(last.log, "write") : last.log[i].ok

(***************************************************************************)
(* The order of the upload and the removal of the old file.                *)
(***************************************************************************)
\* C13: when sync_conversation regenerates a record under a new filename, every
\* remove it issues follows a write that succeeded; a write that raised is
\* followed by no remove and leaves the store as it was; and a file of the
\* record that was at its old path before the call is gone afterwards only if
\* a file is at its new path.
C13_RemoveAfterWrite ==
    [][SyncStepped =>
        LET log == last'.log
            id == fetched.list[idx].id
            old_path == RemotePath(state.conversations[id].filename)
        IN  /\ \A i \in Calls(log, "remove") :
                  \E j \in Calls(log, "write") : j < i /\ log[j].ok
            /\ (\E j \in Calls(log, "write") : ~log[j].ok) =>
                  /\ Calls(log, "remove") = {}
                  /\ files' = files
            /\ (/\ id \in DOMAIN state.conversations
                /\ old_path \in DOMAIN files
                /\ old_path \notin DOMAIN files')
                  => RemotePath(last'.filename) \in DOMAIN files']_vars

\* a record whose title and content changed was written under its new filename
\* and its old file was removed afterwards
C13_Witness ==
    /\ last.kind = "sync"
    /\ last.class = "ContentChanged"
    /\ last.id \in DOMAIN hist.start.conversations
    /\ hist.start.conversations[last.id].filename # last.filename
    /\ \E i \in Calls(last.log, "remove") : last.log[i].ok
    /\ RemotePath(last.filename) \in DOMAIN files
    /\ RemotePath(hist.start.conversations[last.id].filename) \notin DOMAIN files

(***************************************************************************)
(* Retry and convergence.  The service runs undisturbed (no signal, no     *)
(* user edit) for a cycle more than in Spec: the source changes once after *)
(* the first cycle, one store call raises, and a last cycle follows in     *)
(* which every call succeeds.                                              *)
(***************************************************************************)
MainLoopEnterRetry == MainLoopEnterUpTo(MaxRetryCycles)

NextRetry ==
    \/ MainLoopEnterRetry
    \/ save_state
    \/ Sleep
    \/ ensure_output_directory
    \/ EnsureDirFails
    \/ FetchError
    \/ FetchRateLimited
    \/ FetchPage
    \/ SweepStep
    \/ SweepDone
    \/ SyncStep
    \/ SyncDone
    \/ SourceAdd
    \/ SourceEdit
    \/ SourceDelete

SpecRetry == Init /\ [][NextRetry]_vars

\* every record of the source has an entry with its current fingerprint and
\* title whose file exists, and every file of the store is the file of the
\* entry of a record of the source
Converged ==
    LET l == SourceList
    IN  /\ \A i \in 1..Len(l) :
              /\ l[i].id \in DOMAIN state.conversations
              /\ state.conversations[l[i].id].omi_hash = compute_content_hash(l[i])
              /\ state.conversations[l[i].id].title = l[i].structured.title
              /\ RemotePath(state.conversations[l[i].id].filename) \in DOMAIN files
        /\ \A path \in DOMAIN files :
              \E i \in 1..Len(l) :
                  /\ l[i].id \in DOMAIN state.conversations
                  /\ path = RemotePath(state.conversations[l[i].id].filename)

\* C14: a failed write, move or remove is issued again by the next cycle, so
\* an undisturbed service settles. In the form a finite run refutes: a cycle
\* that fetched the whole source, in which no call raised, and that issued no
\* write, move or remove and changed no entry has nothing left to retry, and
\* every cycle after it does the same; so at its end every record of the
\* source has an entry with its current fingerprint and title and its file,
\* and no file of a superseded filename or of a vanished record remains.
C14_SettledMeansConverged ==
    (/\ pc = "save"
     /\ fetched.ok
     /\ hist.clean
     /\ hist.mutations = 0
     /\ state.conversations = hist.start.conversations)
        => Converged

(***************************************************************************)
(* Shutdown.  main is one thread: a step it can take it does take, given   *)
(* that every store and fetch call returns.                                *)
(***************************************************************************)
\* the steps main takes with the flag down, and the steps between two cycles:
\* none of them waits for anything but its own call to return
Fairness ==
    /\ WF_vars(ensure_output_directory)
    /\ WF_vars(FetchShutdown)
    /\ WF_vars(SweepBreak)
    /\ WF_vars(SweepDone)
    /\ WF_vars(SyncBreak)
    /\ WF_vars(SyncDone)
    /\ WF_vars(save_state)
    /\ WF_vars(Sleep)
    /\ WF_vars(MainLoopExit)

SpecLive == Init /\ [][Next]_vars /\ Fairness

\* C15: shutdown is cooperative. Once the flag is down it stays down and no
\* step changes the store or an entry any more (the record in flight when the
\* signal arrived was completed by the step that handled it, no further record
\* is started); the main loop is eventually left; and when it has been left
\* the state file holds the final state and was written once more than the
\* number of cycles that ran.
C15_CooperativeShutdown ==
    /\ [][~running =>
            /\ ~running'
            /\ files' = files
            /\ state'.conversations = state.conversations]_vars
    /\ (~running ~> pc = "done")
    /\ [](pc = "done" => saved.content = state /\ saved.writes = now + 1)

\* the service was stopped inside a cycle, before every record of the source
\* was processed, and has left the main loop
C15_Witness ==
    /\ pc = "done"
    /\ edits = 0
    /\ failures = 0
    /\ state.conversations # <<>>
    /\ \E id \in DOMAIN src : id \notin DOMAIN state.conversations

(***************************************************************************)
(* generate_markdown on its own: the record to render is the one element   *)
(* of conversations, the document rendered is last.written.                *)
(***************************************************************************)
SegmentTexts == {<<>>, <<" ">>, <<"a">>, <<" ", "b", " ">>}

Segments == [speaker_id : {0, 1}, text : SegmentTexts]

RenderInputs ==
    {[id |-> "r1", created_at |-> D1,
      structured |-> [title |-> <<"a">>, category |-> <<>>, overview |-> <<"o">>],
      transcript_segments |-> segs] :
        segs \in UNION {[1..n -> Segments] : n \in 0..MaxSegments}}

InitRender ==
    /\ running = TRUE
    /\ pc = "render"
    /\ now = 0
    /\ src = <<>>
    /\ state = EmptyState
    /\ saved = [content |-> EmptyState, writes |-> 0]
    /\ files = <<>>
    /\ dirExists = FALSE
    /\ \E conversation \in RenderInputs : conversations = <<conversation>>
    /\ offset = 0
    /\ fetched = NotFetched
    /\ todoDel = {}
    /\ idx = 0
    /\ edits = 0
    /\ failures = 0
    /\ userEdits = 0
    /\ rateLimits = 0
    /\ hist = NewHist(EmptyState)
    /\ last = NoLast

Render ==
    /\ pc = "render"
    /\ pc' = "rendered"
    /\ last' = [NoLast EXCEPT
                  !.kind = "render",
                  !.id = conversations[1].id,
                  !.written = generate_markdown(conversations[1],
                                                compute_content_hash(conversations[1]), now)]
    /\ UNCHANGED <<running, now, src, state, saved, files, dirExists, conversations, offset,
                   fetched, todoDel, idx, edits, failures, userEdits, rateLimits, hist>>

NextRender == Render

SpecRender == InitRender /\ [][NextRender]_vars

\* the lines of the document at which a Transcript section starts
TranscriptHeadings(doc) == {i \in 1..Len(doc.body) : doc.body[i] = <<"## Transcript">>}

\* the segments whose text is non-empty after trimming, in order
Spoken(segs) == SelectSeq(segs, LAMBDA seg : Strip(seg.text) # <<>>)

\* one attributed line per spoken segment, in order
AttributedLines(segs) ==
    [i \in 1..Len(Spoken(segs)) |->
        <<"**Speaker ", Digit(Spoken(segs)[i].speaker_id), ":** ">>
            \o Strip(Spoken(segs)[i].text)]

\* the document has one Transcript section, made of the heading, a blank line
\* and the attributed lines of the spoken segments, and nothing after it
TranscriptSectionOf(doc, segs) ==
    /\ Cardinality(TranscriptHeadings(doc)) = 1
    /\ \A h \in TranscriptHeadings(doc) :
          /\ h + 1 <= Len(doc.body)
          /\ doc.body[h + 1] = <<>>
          /\ SubSeq(doc.body, h + 2, Len(doc.body)) = AttributedLines(segs)

\* C16 as the spec states it: the document has a Transcript section if and
\* only if some segment has non-empty text after trimming, and the section
\* then holds one attributed line per such segment, in order.
C16_SectionIffSpoken ==
    pc = "rendered" =>
        LET segs == conversations[1].transcript_segments
        IN  IF Spoken(segs) # <<>>
            THEN TranscriptSectionOf(last.written, segs)
            ELSE TranscriptHeadings(last.written) = {}

\* C16, amended: the document has a Transcript section if and only if the
\* record has at least one transcript segment, whatever its text; the section
\* holds one attributed line per segment whose trimmed text is non-empty, in
\* order, and no line for a segment that is empty or only whitespace.
C16_SectionIffSegments ==
    pc = "rendered" =>
        LET segs == conversations[1].transcript_segments
        IN  IF segs # <<>>
            THEN TranscriptSectionOf(last.written, segs)
            ELSE TranscriptHeadings(last.written) = {}

\* a record with a whitespace-only segment between two spoken ones was rendered
C16_Witness ==
    /\ pc = "rendered"
    /\ LET segs == conversations[1].transcript_segments
       IN  /\ Len(segs) = 3
           /\ Strip(segs[1].text) # <<>>
           /\ segs[2].text = <<" ">>
           /\ Strip(segs[3].text) # <<>>
           /\ TranscriptHeadings(last.written) # {}

(***************************************************************************)
(* The sweep and the records that are still in the source.                 *)
(***************************************************************************)
\* the entries of the records of the source keep, over the step, themselves
\* and the file at their filename
PresentSpared(ids) ==
    \A id \in ids \cap DOMAIN state.conversations :
        /\ id \in DOMAIN state'.conversations
        /\ RemotePath(state.conversations[id].filename) \in DOMAIN files
              => RemotePath(state.conversations[id].filename) \in DOMAIN files'

\* C17: whenever the signal arrives, also inside a fetch that is then cut
\* short, no iteration of the deletion sweep removes the state entry or the
\* destination file of a record that is still in the source.
C17_SweepSparesPresent ==
    [][(\E conv_id \in Ids : SweepStepped(conv_id)) => PresentSpared(DOMAIN src)]_vars

(***************************************************************************)
(* State entries and destination files at the end of a cycle.              *)
(***************************************************************************)
\* run_sync_cycle is about to return and nobody but the service touched the store
EndOfCycle == pc = "save" /\ userEdits = 0

\* C18: at the end of every cycle each state entry with a filename designates
\* a path at which a file exists, and sync_conversation creates an entry, or
\* gives one another filename, only when a write or a move to that filename's
\* path succeeded in the same call.
C18_EntriesHaveFiles ==
    /\ [](EndOfCycle =>
            \A id \in DOMAIN state.conversations :
                state.conversations[id].filename # NoName
                    => RemotePath(state.conversations[id].filename) \in DOMAIN files)
    /\ [][(SyncStepped /\ userEdits = 0) =>
            LET id == fetched.list[idx].id
                log == last'.log
            IN  (/\ id \in DOMAIN state'.conversations
                 /\ (id \in DOMAIN state.conversations
                        => state'.conversations[id].filename
                              # state.conversations[id].filename))
                    => \E i \in 1..Len(log) :
                          /\ log[i].ok
                          /\ \/ /\ log[i].op = "write"
                                /\ log[i].path = RemotePath(state'.conversations[id].filename)
                             \/ /\ log[i].op = "move"
                                /\ log[i].to = RemotePath(state'.conversations[id].filename)]_vars

\* the paths recorded, before the step, as the filename of an entry other than id's
PathsOfOthers(id) ==
    {RemotePath(state.conversations[other].filename) :
        other \in DOMAIN state.conversations \ {id}}

\* the paths the calls of a log write to, move onto or remove
Targets(log) ==
    {log[i].path : i \in Calls(log, "write") \cup Calls(log, "remove")}
        \cup {log[i].to : i \in Calls(log, "move")}

\* C19: no write, move or remove issued while one record is processed, and no
\* remove issued by the sweep for one vanished record, targets a path that is
\* at that moment the recorded filename of another record's entry.
C19_NoForeignTarget ==
    [][/\ SyncStepped => Targets(last'.log) \cap PathsOfOthers(fetched.list[idx].id) = {}
       /\ \A conv_id \in Ids :
             SweepStepped(conv_id) => Targets(last'.log) \cap PathsOfOthers(conv_id) = {}]_vars

\* C20: at the end of every cycle every file of the destination is the
\* recorded filename of some state entry: the service leaves no orphan.
C20_NoOrphan ==
    EndOfCycle =>
        \A path \in DOMAIN files :
            \E id \in DOMAIN state.conversations :
                path = RemotePath(state.conversations[id].filename)

====
